---- MODULE Spec2Model ----
(***************************************************************************)
(* StorageService of nestjs-multi-storage (src/unnamed/part_000, the       *)
(* service with HeadObject-based exists, signed URLs and CDN support).     *)
(* A string of the program is a sequence of one-character strings, so that *)
(* path.normalize, the regular-expression replaces and String.replace are  *)
(* computed character by character.                                        *)
(***************************************************************************)
EXTENDS Integers, Sequences, FiniteSets, TLC

VARIABLES
  cfg,       \* the options object the constructor copies (part_000:38-56)
  s3Client,  \* this.s3Client: TRUE when the handle is set (part_000:26)
  life,      \* history: "constructed", then "started" / "destroyed" by the hooks
  bucket,    \* the object store: bucket name -> (key -> body bytes)
  pageSize,  \* the object store's listing page size (MaxKeys of the backend)
  fsDirs,    \* the filesystem: the directories that exist
  fsFiles,   \* the filesystem: file path -> content bytes
  ret,       \* what the last completed public call returned or threw
  reqs,      \* the backend requests the last public call issued, with answers
  rd,        \* the readdir call in progress (its loop variables, its requests)
  written,   \* history: per path, the data of the last completed writeFile
  rs,        \* the stream returned by createReadStream and its background get
  ws         \* the stream returned by createWriteStream and its upload

vars == <<cfg, s3Client, life, bucket, pageSize, fsDirs, fsFiles, ret, reqs, rd, written, rs, ws>>

Undefined == "undefined"

--------------------------------------------------------------------------
(* Strings *)

\* UTF-16 code unit of a character (String comparison and Array.sort order)
Code(c) ==
  CASE c = "." -> 46 [] c = "/" -> 47 [] c = ":" -> 58 [] c = "?" -> 63
    [] c = "\\" -> 92 [] c = "a" -> 97 [] c = "b" -> 98 [] c = "c" -> 99
    [] c = "d" -> 100 [] c = "h" -> 104 [] c = "m" -> 109 [] c = "n" -> 110
    [] c = "o" -> 111 [] c = "r" -> 114 [] c = "s" -> 115 [] c = "x" -> 120
    [] c = "U+E9" -> 233

\* \w of a regular expression
IsWordChar(c) == Code(c) >= 97 /\ Code(c) <= 122

RECURSIVE StrLess(_, _)
\* x < y for two strings, by code units
StrLess(x, y) ==
  IF y = <<>> THEN FALSE
  ELSE IF x = <<>> THEN TRUE
  ELSE IF Head(x) = Head(y) THEN StrLess(Tail(x), Tail(y))
  ELSE Code(Head(x)) < Code(Head(y))

StartsWith(s, p) == Len(p) <= Len(s) /\ SubSeq(s, 1, Len(p)) = p

\* the first index at which pat occurs in s, 0 when it does not
IndexOf(s, pat) ==
  LET hits == {i \in 1..(Len(s) - Len(pat) + 1) : SubSeq(s, i, i + Len(pat) - 1) = pat}
  IN  IF hits = {} THEN 0 ELSE CHOOSE i \in hits : \A j \in hits : i <= j

\* String.prototype.replace(pat, rep) with a string pattern: the first
\* occurrence only
ReplaceFirst(s, pat, rep) ==
  LET i == IndexOf(s, pat)
  IN  IF i = 0 THEN s
      ELSE SubSeq(s, 1, i - 1) \o rep \o SubSeq(s, i + Len(pat), Len(s))

RECURSIVE DropLeading(_, _)
DropLeading(s, ch) ==
  IF s # <<>> /\ Head(s) = ch THEN DropLeading(Tail(s), ch) ELSE s

RECURSIVE CollapseRuns(_, _, _)
\* .replace(/ch+/g, rep): every maximal run of ch becomes rep
CollapseRuns(s, ch, rep) ==
  IF s = <<>> THEN <<>>
  ELSE IF Head(s) = ch THEN <<rep>> \o CollapseRuns(DropLeading(Tail(s), ch), ch, rep)
  ELSE <<Head(s)>> \o CollapseRuns(Tail(s), ch, rep)

\* a strip that removes nothing
StripTrailingSlashesNone(s) == s

RECURSIVE StripTrailingSlashes(_)
\* .replace(/\/+$/, '')
StripTrailingSlashes(s) ==
  IF s # <<>> /\ s[Len(s)] = "/" THEN StripTrailingSlashes(SubSeq(s, 1, Len(s) - 1)) ELSE s

\* .replace(/^\//, '/'): a leading separator is replaced by a separator
ReplaceLeadingSlash(s) ==
  IF s # <<>> /\ Head(s) = "/" THEN <<"/">> \o Tail(s) ELSE s

RECURSIVE SplitAcc(_, _, _)
SplitAcc(s, cur, acc) ==
  IF s = <<>> THEN Append(acc, cur)
  ELSE IF Head(s) = "/" THEN SplitAcc(Tail(s), <<>>, Append(acc, cur))
  ELSE SplitAcc(Tail(s), Append(cur, Head(s)), acc)

\* the segments of s between separators
SplitSlash(s) == SplitAcc(s, <<>>, <<>>)

RECURSIVE JoinSlash(_)
JoinSlash(segs) ==
  IF segs = <<>> THEN <<>>
  ELSE IF Len(segs) = 1 THEN segs[1]
  ELSE segs[1] \o <<"/">> \o JoinSlash(Tail(segs))

RECURSIVE NormSegs(_, _, _)
\* normalizeString of node's path module: resolves "." and ".." segments
NormSegs(segs, res, allowAboveRoot) ==
  IF segs = <<>> THEN res
  ELSE LET g == Head(segs) IN
    IF g = <<>> \/ g = <<".">> THEN NormSegs(Tail(segs), res, allowAboveRoot)
    ELSE IF g = <<".", ".">> THEN
      IF res # <<>> /\ res[Len(res)] # <<".", ".">>
        THEN NormSegs(Tail(segs), SubSeq(res, 1, Len(res) - 1), allowAboveRoot)
      ELSE IF allowAboveRoot THEN NormSegs(Tail(segs), Append(res, g), allowAboveRoot)
      ELSE NormSegs(Tail(segs), res, allowAboveRoot)
    ELSE NormSegs(Tail(segs), Append(res, g), allowAboveRoot)

\* path.normalize (posix)
pathNormalize(p) ==
  IF p = <<>> THEN <<".">>
  ELSE LET isAbsolute == Head(p) = "/"
           trailingSeparator == p[Len(p)] = "/"
           n == JoinSlash(NormSegs(SplitSlash(p), <<>>, ~isAbsolute))
       IN  IF n = <<>>
             THEN IF isAbsolute THEN <<"/">>
                  ELSE IF trailingSeparator THEN <<".", "/">> ELSE <<".">>
             ELSE (IF isAbsolute THEN <<"/">> ELSE <<>>) \o n
                  \o (IF trailingSeparator THEN <<"/">> ELSE <<>>)

\* path.join(a, b) (posix): the non-empty arguments joined by a separator,
\* then normalized
pathJoin(a, b) ==
  LET joined == IF a = <<>> THEN b ELSE IF b = <<>> THEN a ELSE a \o <<"/">> \o b
  IN  pathNormalize(joined)

\* a directory key without the delimiter appended
normalizeDirKeyNoDelimiter(key) ==
  ReplaceLeadingSlash(CollapseRuns(CollapseRuns(pathNormalize(key), "\\", "/"), "/", "/"))

normalizeDirKey(key) ==
  ReplaceLeadingSlash(
    CollapseRuns(CollapseRuns(pathNormalize(key) \o <<"/">>, "\\", "/"), "/", "/"))

normalizeKey(key) ==
  StripTrailingSlashes(ReplaceLeadingSlash(
    CollapseRuns(CollapseRuns(pathNormalize(key), "\\", "/"), "/", "/")))

RECURSIVE SortedSeq(_)
\* the strings of a set in ascending order
SortedSeq(S) ==
  IF S = {} THEN <<>>
  ELSE LET m == CHOOSE x \in S : \A y \in S : x = y \/ StrLess(x, y)
       IN  <<m>> \o SortedSeq(S \ {m})

\* Array.prototype.sort() of strings (default comparator)
ArraySort(list) == SortSeq(list, LAMBDA x, y : StrLess(x, y))

Range(f) == {f[i] : i \in DOMAIN f}

--------------------------------------------------------------------------
(* Bounds and inputs *)

\* largest listing page size of the object store that is explored
MaxPageSize == 2

\* most listing requests one readdir call is followed through
MaxRequests == 5

PA   == <<"a">>
PAB  == <<"a", "/", "b">>
PABC == <<"a", "/", "b", "/", "c">>
PAC  == <<"a", "/", "c">>

\* the paths the calls are made with: directories and files two levels deep
Paths     == {PA, PAB, PABC, PAC}
DirPaths  == {PA, PAB}
FilePaths == {PAB, PABC, PAC}

\* the paths of the specification of all calls
CallDirPaths  == {PA}
CallFilePaths == {PAB, PAC}

DefaultBucket == "m"
\* a bucket other than the configured one
OtherBucket == "n"
Buckets == {DefaultBucket, OtherBucket}
\* the optional bucket argument of a call
BucketArgs == {Undefined}

Origin == <<"h", ":", "/", "/", "o">>
Cdn    == <<"h", ":", "/", "/", "c">>

\* data arguments of writeFile: a Buffer and a string
BufferArg == [type |-> "Buffer", bytes |-> <<1>>]
StringArg == [type |-> "string", chars |-> <<"a", "U+E9">>]
DataArgs == {BufferArg, StringArg}

\* the UTF-8 encoding of one character
Utf8Char(c) == IF Code(c) < 128 THEN <<Code(c)>> ELSE <<192 + (Code(c) \div 64), 128 + (Code(c) % 64)>>

RECURSIVE BufferFrom(_)
\* Buffer.from(string): the UTF-8 bytes
BufferFrom(chars) ==
  IF chars = <<>> THEN <<>> ELSE Utf8Char(Head(chars)) \o BufferFrom(Tail(chars))

\* the bytes a data argument stands for
BytesOf(data) == IF data.type = "string" THEN BufferFrom(data.chars) ELSE data.bytes

EmptyMap == [x \in {} |-> <<>>]

MapPut(f, k, v) == [x \in (DOMAIN f) \cup {k} |-> IF x = k THEN v ELSE f[x]]
MapDel(f, K) == [x \in (DOMAIN f) \ K |-> f[x]]

--------------------------------------------------------------------------
(* Construction and lifecycle *)

S3Options(cdn, pathStyle, missing) ==
  [type |-> "s3",
   endpoint |-> IF missing = "endpoint" THEN <<>> ELSE Origin,
   endpointCDN |-> IF cdn THEN Cdn ELSE <<>>,
   region |-> IF missing = "region" THEN <<>> ELSE <<"r">>,
   forcePathStyle |-> pathStyle,
   bucket |-> DefaultBucket,
   accessKeyId |-> IF missing = "accessKeyId" THEN <<>> ELSE <<"a">>,
   secretAccessKey |-> IF missing = "secretAccessKey" THEN <<>> ELSE <<"s">>,
   prefix |-> <<>>]

\* the option objects the module is configured with (an absent or empty
\* string option is <<>>: the code only tests the options' truthiness)
FsOptions(prefix) ==
  [S3Options(FALSE, TRUE, "none") EXCEPT !.type = "fileSystem", !.prefix = prefix]

IncompleteOptions ==
  {S3Options(FALSE, TRUE, m) : m \in {"endpoint", "region", "accessKeyId", "secretAccessKey"}}

Options ==
  {FsOptions(<<>>), S3Options(FALSE, TRUE, "none")} \cup IncompleteOptions

\* the constructor: the fields of the service after construction
Construct(options) ==
  LET s3 == options.type = "s3" IN
  [useFileSystem |-> ~s3,
   endpoint |-> IF s3 THEN options.endpoint ELSE <<>>,
   endpointCDN |-> IF s3 THEN options.endpointCDN ELSE <<>>,
   region |-> IF s3 THEN options.region ELSE <<>>,
   forcePathStyle |-> IF s3 THEN options.forcePathStyle ELSE FALSE,
   bucket |-> IF s3 THEN options.bucket ELSE Undefined,
   accessKeyId |-> IF s3 THEN options.accessKeyId ELSE <<>>,
   secretAccessKey |-> IF s3 THEN options.secretAccessKey ELSE <<>>,
   prefix |-> options.prefix]

Truthy(s) == s # <<>>

NoCall == [op |-> "none", path |-> <<>>, kind |-> "ok", val |-> Undefined]
RdIdle == [pc |-> "idle"]
StreamIdle == [pc |-> "idle"]

InitService(options, sizes) ==
  /\ cfg \in {Construct(o) : o \in options}
  /\ s3Client = FALSE
  /\ life = "constructed"
  /\ bucket = [b \in Buckets |-> EmptyMap]
  /\ pageSize \in (IF cfg.useFileSystem \/ \E o \in IncompleteOptions : cfg = Construct(o)
                     THEN {MaxPageSize} ELSE sizes)
  /\ fsDirs = (IF cfg.prefix = <<>> THEN {} ELSE {cfg.prefix})
  /\ fsFiles = EmptyMap
  /\ ret = NoCall
  /\ reqs = <<>>
  /\ rd = RdIdle
  /\ written = EmptyMap

Init ==
  /\ InitService(Options, 1..MaxPageSize)
  /\ rs = StreamIdle
  /\ ws = StreamIdle

\* the caller awaits one call before the next
Idle == rd.pc = "idle"

\* a startup that does not look at the secret access key
onModuleInitWithoutSecret ==
  /\ Idle
  /\ s3Client' = IF /\ ~cfg.useFileSystem
                    /\ Truthy(cfg.endpoint) /\ Truthy(cfg.region)
                    /\ Truthy(cfg.accessKeyId)
                 THEN TRUE ELSE s3Client
  /\ life' = "started"
  /\ ret' = [op |-> "onModuleInit", path |-> <<>>, kind |-> "ok", val |-> Undefined]
  /\ reqs' = <<>>
  /\ UNCHANGED <<cfg, bucket, pageSize, fsDirs, fsFiles, rd, written, rs, ws>>

onModuleInit ==
  /\ Idle
  /\ s3Client' = IF /\ ~cfg.useFileSystem
                    /\ Truthy(cfg.endpoint) /\ Truthy(cfg.region)
                    /\ Truthy(cfg.accessKeyId) /\ Truthy(cfg.secretAccessKey)
                 THEN TRUE ELSE s3Client
  /\ life' = "started"
  /\ ret' = [op |-> "onModuleInit", path |-> <<>>, kind |-> "ok", val |-> Undefined]
  /\ reqs' = <<>>
  /\ UNCHANGED <<cfg, bucket, pageSize, fsDirs, fsFiles, rd, written, rs, ws>>

\* this.s3Client?.destroy(): the handle's connections are released, the
\* field keeps the handle
onModuleDestroy ==
  /\ Idle
  /\ life' = "destroyed"
  /\ ret' = [op |-> "onModuleDestroy", path |-> <<>>, kind |-> "ok", val |-> Undefined]
  /\ reqs' = <<>>
  /\ UNCHANGED <<cfg, s3Client, bucket, pageSize, fsDirs, fsFiles, rd, written, rs, ws>>

--------------------------------------------------------------------------
(* The object store (S3 protocol) as the service's requests see it *)

\* answers of the backend that do not depend on its content: the request is
\* served, or fails with something other than not-found (transport, 5xx, 403)
Answers == {"ok", "failure"}

Ret(op, p, kind, val) == [op |-> op, path |-> p, kind |-> kind, val |-> val]
Req(cmd, bk, key, ans) == [cmd |-> cmd, Bucket |-> bk, Key |-> key, ans |-> ans]

\* a service that sends every request to the configured bucket
BucketOfConfigured(b) == cfg.bucket

\* bucket = this.bucket unless the caller passed one
BucketOf(b) == IF b = Undefined THEN cfg.bucket ELSE b

\* what follows the listing prefix in a key
AfterPrefix(k, prefix) == SubSeq(k, Len(prefix) + 1, Len(k))

\* the entry a key is listed as: itself, or with a delimiter the common
\* prefix up to and including the first delimiter after the listing prefix
ListEntry(k, prefix, delimiter) ==
  LET i == IndexOf(AfterPrefix(k, prefix), <<"/">>)
  IN  IF delimiter /\ i > 0 THEN SubSeq(k, 1, Len(prefix) + i) ELSE k

IsCommonPrefix(e, prefix, delimiter) ==
  delimiter /\ IndexOf(AfterPrefix(e, prefix), <<"/">>) > 0

\* ListObjects (version 1): one page of at most pageSize entries, in key
\* order, after the marker. An absent marker is <<>>; Contents = <<>> stands
\* for the field being absent from the output.
ListObjects(bk, prefix, delimiter, marker) ==
  LET keys == {k \in DOMAIN bucket[bk] :
                 StartsWith(k, prefix) /\ (marker = <<>> \/ StrLess(marker, k))}
      all == SortedSeq({ListEntry(k, prefix, delimiter) : k \in keys})
      page == SubSeq(all, 1, IF Len(all) < pageSize THEN Len(all) ELSE pageSize)
  IN  [Contents |-> SelectSeq(page, LAMBDA e : ~IsCommonPrefix(e, prefix, delimiter)),
       CommonPrefixes |-> SelectSeq(page, LAMBDA e : IsCommonPrefix(e, prefix, delimiter)),
       IsTruncated |-> Len(all) > pageSize,
       Prefix |-> prefix]

--------------------------------------------------------------------------
(* The filesystem as the service's calls see it *)

FsParent(q) ==
  LET s == SplitSlash(q) IN IF Len(s) <= 1 THEN <<".">> ELSE JoinSlash(SubSeq(s, 1, Len(s) - 1))

FsAncestors(q) ==
  LET s == SplitSlash(q) IN {JoinSlash(SubSeq(s, 1, i)) : i \in 1..(Len(s) - 1)}

FsBaseName(q) == LET s == SplitSlash(q) IN s[Len(s)]

FsUnder(x, q) == IF q = <<".">> THEN x # q ELSE StartsWith(x, q \o <<"/">>)

FsIsFile(q) == q \in DOMAIN fsFiles
FsIsDir(q) == q = <<".">> \/ q \in fsDirs

Perms(S) == {s \in [1..Cardinality(S) -> S] : Range(s) = S}

--------------------------------------------------------------------------
(* Signed URLs *)

\* .replace(/(^\w+:|^)\/\//, ''): a leading "scheme://" or "//" is removed
StripScheme(e) ==
  LET w == CHOOSE n \in 0..Len(e) :
             /\ \A i \in 1..n : IsWordChar(e[i])
             /\ (n = Len(e) \/ ~IsWordChar(e[n + 1]))
  IN  IF w >= 1 /\ Len(e) >= w + 3 /\ SubSeq(e, w + 1, w + 3) = <<":", "/", "/">>
        THEN SubSeq(e, w + 4, Len(e))
      ELSE IF Len(e) >= 2 /\ SubSeq(e, 1, 2) = <<"/", "/">> THEN SubSeq(e, 3, Len(e))
      ELSE e

\* the scheme of an endpoint, with its "//"
EndpointScheme(e) == SubSeq(e, 1, Len(e) - Len(StripScheme(e)))

\* the host (with its port) of an endpoint: what follows the scheme, up to
\* the first separator
EndpointHost(e) ==
  LET r == StripScheme(e)
      i == IndexOf(r, <<"/">>)
  IN  IF i = 0 THEN r ELSE SubSeq(r, 1, i - 1)

\* the URL the presigner issues for a key: the endpoint's scheme and host with
\* the bucket in the path (path style) or in the host, the key, and the
\* signed query
Presign(bk, key, query) ==
  LET scheme == EndpointScheme(cfg.endpoint)
      host == EndpointHost(cfg.endpoint)
  IN  IF cfg.forcePathStyle
        THEN scheme \o host \o <<"/", bk, "/">> \o key \o <<"?">> \o query
        ELSE scheme \o <<bk, ".">> \o host \o <<"/">> \o key \o <<"?">> \o query

\* url.replace(origin host, CDN host)
RewriteToCdn(url) ==
  ReplaceFirst(url, StripScheme(cfg.endpoint), StripScheme(cfg.endpointCDN))

UrlHost(url) ==
  LET r == SubSeq(url, IndexOf(url, <<"/", "/">>) + 2, Len(url))
      i == IndexOf(r, <<"/">>)
  IN  IF i = 0 THEN r ELSE SubSeq(r, 1, i - 1)

UrlPath(url) ==
  LET r == SubSeq(url, IndexOf(url, <<"/", "/">>) + 2, Len(url))
      i == IndexOf(r, <<"/">>)
      q == IndexOf(r, <<"?">>)
  IN  IF i = 0 THEN <<>> ELSE SubSeq(r, i, IF q = 0 THEN Len(r) ELSE q - 1)

\* the body of an error response (an XML document)
ErrorBody == <<60>>

\* the hosts that serve the buckets: the origin and the CDN in front of it
ServingHosts == {StripScheme(Origin), StripScheme(Cdn)}

\* fetch(url).then(response => response.buffer()): the object a served URL
\* addresses, in path style or with the bucket in the host; the response
\* body is returned whatever the status
Fetch(url, ans) ==
  LET host == UrlHost(url)
      path == UrlPath(url)
      segs == SplitSlash(path)
      pathStyle == host \in ServingHosts /\ Len(segs) >= 3 /\ Len(segs[2]) = 1
                     /\ segs[2][1] \in DOMAIN bucket
      inHost == Len(host) >= 3 /\ host[1] \in DOMAIN bucket /\ host[2] = "."
                  /\ SubSeq(host, 3, Len(host)) \in ServingHosts /\ path # <<>>
      bk == IF pathStyle THEN segs[2][1] ELSE host[1]
      key == IF pathStyle THEN JoinSlash(SubSeq(segs, 3, Len(segs))) ELSE Tail(path)
  IN  IF ans # "ok" \/ ~(pathStyle \/ inHost) THEN [kind |-> "throw", val |-> "FetchError"]
      ELSE IF key \in DOMAIN bucket[bk] THEN [kind |-> "ok", val |-> bucket[bk][key]]
      ELSE [kind |-> "ok", val |-> ErrorBody]

--------------------------------------------------------------------------
(* Public operations. An outcome is the stores after the call, what the    *)
(* call returned or threw, and the requests it issued.                     *)

Outcome(r, q) == [bucket |-> bucket, fsDirs |-> fsDirs, fsFiles |-> fsFiles, ret |-> r, reqs |-> q]

\* this.s3Client!.send(...) with no handle: a TypeError
NoHandle(op, p) == Outcome(Ret(op, p, "throw", "TypeError"), <<>>)

FsPath(p) == pathJoin(cfg.prefix, p)

mkdirOutcome(p, b, ans) ==
  IF cfg.useFileSystem THEN
    LET q == FsPath(p)
        chain == (FsAncestors(q) \cup {q}) \ {<<".">>}
    IN  IF \E x \in chain : FsIsFile(x)
          THEN Outcome(Ret("mkdir", p, "throw", "EEXIST"), <<>>)
          ELSE [Outcome(Ret("mkdir", p, "ok", Undefined), <<>>) EXCEPT !.fsDirs = fsDirs \cup chain]
  ELSE IF ~s3Client THEN NoHandle("mkdir", p)
  ELSE
    LET bk == BucketOf(b)
        key == normalizeDirKey(p)
        rq == <<Req("PutObject", bk, key, ans)>>
    IN  IF ans = "ok"
          THEN [Outcome(Ret("mkdir", p, "ok", Undefined), rq)
                  EXCEPT !.bucket = [bucket EXCEPT ![bk] = MapPut(@, key, <<>>)]]
          ELSE Outcome(Ret("mkdir", p, "throw", "Failure"), rq)

\* a writeFile that puts the object at the directory key
writeFileKeyAsDirKey(p) == normalizeDirKey(p)

\* the key writeFile puts the object at
writeFileKey(p) == normalizeKey(p)

writeFileOutcome(p, data, b, ans) ==
  IF cfg.useFileSystem THEN
    LET q == FsPath(p) IN
    IF FsIsDir(q) THEN Outcome(Ret("writeFile", p, "throw", "EISDIR"), <<>>)
    ELSE IF ~FsIsDir(FsParent(q)) THEN Outcome(Ret("writeFile", p, "throw", "ENOENT"), <<>>)
    ELSE [Outcome(Ret("writeFile", p, "ok", Undefined), <<>>)
            EXCEPT !.fsFiles = MapPut(fsFiles, q, BytesOf(data))]
  ELSE IF ~s3Client THEN NoHandle("writeFile", p)
  ELSE
    LET bk == BucketOf(b)
        key == writeFileKey(p)
        body == IF data.type = "string" THEN BufferFrom(data.chars) ELSE data.bytes
        rq == <<Req("PutObject", bk, key, ans)>>
    IN  IF ans = "ok"
          THEN [Outcome(Ret("writeFile", p, "ok", Undefined), rq)
                  EXCEPT !.bucket = [bucket EXCEPT ![bk] = MapPut(@, key, body)]]
          ELSE Outcome(Ret("writeFile", p, "throw", "Failure"), rq)

readFileOutcome(p, b, ans) ==
  IF cfg.useFileSystem THEN
    LET q == FsPath(p) IN
    IF FsIsFile(q) THEN Outcome(Ret("readFile", p, "ok", fsFiles[q]), <<>>)
    ELSE IF FsIsDir(q) THEN Outcome(Ret("readFile", p, "throw", "EISDIR"), <<>>)
    ELSE Outcome(Ret("readFile", p, "throw", "ENOENT"), <<>>)
  ELSE
    LET bk == BucketOf(b)
        key == normalizeKey(p)
    IN  IF Truthy(cfg.endpointCDN) THEN
          \* the presigner reads the client's configuration
          IF ~s3Client THEN NoHandle("readFile", p)
          ELSE LET url == RewriteToCdn(Presign(bk, key, <<"s">>))
                   got == Fetch(url, ans)
               IN  Outcome(Ret("readFile", p, got.kind, got.val), <<Req("fetch", bk, url, ans)>>)
        ELSE IF ~s3Client THEN NoHandle("readFile", p)
        ELSE IF ans # "ok"
          THEN Outcome(Ret("readFile", p, "throw", "Failure"), <<Req("GetObject", bk, key, ans)>>)
        ELSE IF key \notin DOMAIN bucket[bk]
          THEN Outcome(Ret("readFile", p, "throw", "NoSuchKey"), <<Req("GetObject", bk, key, "404")>>)
        ELSE Outcome(Ret("readFile", p, "ok", bucket[bk][key]), <<Req("GetObject", bk, key, ans)>>)

rmOutcome(p, b, ans) ==
  IF cfg.useFileSystem THEN
    LET q == FsPath(p) IN
    IF FsIsFile(q)
      THEN [Outcome(Ret("rm", p, "ok", Undefined), <<>>) EXCEPT !.fsFiles = MapDel(fsFiles, {q})]
    ELSE IF FsIsDir(q) THEN Outcome(Ret("rm", p, "throw", "ERR_FS_EISDIR"), <<>>)
    ELSE Outcome(Ret("rm", p, "throw", "ENOENT"), <<>>)
  ELSE IF ~s3Client THEN NoHandle("rm", p)
  ELSE
    LET bk == BucketOf(b)
        key == normalizeKey(p)
        rq == <<Req("DeleteObject", bk, key, ans)>>
    IN  IF ans = "ok"
          THEN [Outcome(Ret("rm", p, "ok", Undefined), rq)
                  EXCEPT !.bucket = [bucket EXCEPT ![bk] = MapDel(@, {key})]]
          ELSE Outcome(Ret("rm", p, "throw", "Failure"), rq)

rmdirOutcome(p, b, ans1, ans2) ==
  IF cfg.useFileSystem THEN
    LET q == FsPath(p) IN
    IF FsIsFile(q) \/ q \in fsDirs
      THEN [Outcome(Ret("rmdir", p, "ok", Undefined), <<>>)
              EXCEPT !.fsFiles = MapDel(fsFiles, {x \in DOMAIN fsFiles : x = q \/ FsUnder(x, q)}),
                     !.fsDirs = {x \in fsDirs : ~(x = q \/ FsUnder(x, q))}]
      ELSE Outcome(Ret("rmdir", p, "throw", "ENOENT"), <<>>)
  ELSE IF ~s3Client THEN NoHandle("rmdir", p)
  ELSE
    LET bk == BucketOf(b)
        prefix == normalizeDirKey(p)
        rq1 == Req("ListObjects", bk, prefix, ans1)
    IN  IF ans1 # "ok" THEN Outcome(Ret("rmdir", p, "throw", "Failure"), <<rq1>>)
        ELSE
          LET output == ListObjects(bk, prefix, FALSE, <<>>)
              sorted == ArraySort(output.Contents)
              keys == [i \in 1..Len(sorted) |-> sorted[Len(sorted) + 1 - i]]
              rq2 == Req("DeleteObjects", bk, keys, ans2)
          IN  IF ans2 # "ok" THEN Outcome(Ret("rmdir", p, "throw", "Failure"), <<rq1, rq2>>)
              ELSE [Outcome(Ret("rmdir", p, "ok", Undefined), <<rq1, rq2>>)
                      EXCEPT !.bucket = [bucket EXCEPT ![bk] = MapDel(@, Range(keys))]]

\* HeadObject: found, not found (404), or another failure
HeadObject(bk, key, ans) ==
  IF ans # "ok" THEN "failure" ELSE IF key \in DOMAIN bucket[bk] THEN "ok" ELSE "404"

\* an exists that concludes absence from the 404 on the file key alone
existsFallbackSkipped(p, bk, ans2) == [val |-> FALSE, reqs |-> <<>>]

\* the handler of a 404 on the file key: the probe of the directory key
existsFallback(p, bk, ans2) ==
  LET h2 == HeadObject(bk, normalizeDirKey(p), ans2)
  IN  [val |-> (h2 = "ok"), reqs |-> <<Req("HeadObject", bk, normalizeDirKey(p), h2)>>]

existsOutcome(p, b, ans1, ans2) ==
  IF cfg.useFileSystem THEN
    LET q == FsPath(p) IN Outcome(Ret("exists", p, "ok", FsIsFile(q) \/ FsIsDir(q)), <<>>)
  ELSE IF ~s3Client THEN NoHandle("exists", p)
  ELSE
    LET bk == BucketOf(b)
        key == normalizeKey(p)
        h1 == HeadObject(bk, key, ans1)
        rq1 == Req("HeadObject", bk, key, h1)
    IN  IF h1 = "ok" THEN Outcome(Ret("exists", p, "ok", TRUE), <<rq1>>)
        ELSE IF h1 = "404"
          THEN LET fb == existsFallback(p, bk, ans2)
               IN  Outcome(Ret("exists", p, "ok", fb.val), <<rq1>> \o fb.reqs)
        ELSE Outcome(Ret("exists", p, "throw", "Failure"), <<rq1>>)

\* signed-URL calls that do not test the mode
signedUrlUnsupportedNever == FALSE

\* if (this.useFileSystem) throw new Error('Signed URLs are not supported ...')
signedUrlUnsupported == cfg.useFileSystem

\* getSignedUrl and getSignedPutUrl differ in the command they sign
signedUrlOutcome(op, p, opts) ==
  IF signedUrlUnsupported THEN Outcome(Ret(op, p, "throw", "Unsupported"), <<>>)
  ELSE IF ~s3Client THEN NoHandle(op, p)
  ELSE
    LET bk == BucketOf(opts.bucket)
        query == (IF op = "getSignedUrl" THEN <<"s">> ELSE <<"x">>) \o opts.hint
        url == Presign(bk, normalizeKey(p), query)
        rq == <<Req("presign", bk, url, "ok")>>
    IN  IF Truthy(cfg.endpointCDN) /\ Truthy(cfg.endpoint)
          THEN Outcome(Ret(op, p, "ok", RewriteToCdn(url)), rq)
          ELSE Outcome(Ret(op, p, "ok", url), rq)

\* the options of the signed-URL calls: a bucket, and a content-disposition
\* or content-type hint that is signed into the query
SignedUrlOpts == {[bucket |-> Undefined, hint |-> <<>>], [bucket |-> DefaultBucket, hint |-> <<"d">>]}

\* whether path q names p or a directory above p
Touches(q, p) == q = p \/ StartsWith(p, q \o <<"/">>)

Complete(o, w) ==
  /\ bucket' = o.bucket
  /\ fsDirs' = o.fsDirs
  /\ fsFiles' = o.fsFiles
  /\ ret' = o.ret
  /\ reqs' = o.reqs
  /\ written' = w
  /\ UNCHANGED <<cfg, s3Client, life, pageSize, rd, rs, ws>>

mkdir(p, b) ==
  /\ Idle
  /\ \E ans \in Answers : Complete(mkdirOutcome(p, b, ans), written)

writeFile(p, data, b) ==
  /\ Idle
  /\ \E ans \in Answers :
       LET o == writeFileOutcome(p, data, b, ans)
       IN  Complete(o, IF o.ret.kind = "ok" THEN MapPut(written, p, BytesOf(data))
                       ELSE MapDel(written, {p}))

readFile(p, b) ==
  /\ Idle
  /\ \E ans \in Answers : Complete(readFileOutcome(p, b, ans), written)

rm(p, b) ==
  /\ Idle
  /\ \E ans \in Answers :
       Complete(rmOutcome(p, b, ans), MapDel(written, {x \in DOMAIN written : Touches(p, x)}))

rmdir(p, b) ==
  /\ Idle
  /\ \E ans1 \in Answers, ans2 \in Answers :
       Complete(rmdirOutcome(p, b, ans1, ans2),
                MapDel(written, {x \in DOMAIN written : Touches(p, x)}))

exists(p, b) ==
  /\ Idle
  /\ \E ans1 \in Answers, ans2 \in Answers : Complete(existsOutcome(p, b, ans1, ans2), written)

getSignedUrl(p, opts) ==
  /\ Idle
  /\ Complete(signedUrlOutcome("getSignedUrl", p, opts), written)

getSignedPutUrl(p, opts) ==
  /\ Idle
  /\ Complete(signedUrlOutcome("getSignedPutUrl", p, opts), written)

--------------------------------------------------------------------------
(* readdir: one action per listing request of its loop *)

\* key.replace(output.Prefix, '').replace(/\/+$/, '')
entryName(key, outPrefix) == StripTrailingSlashes(ReplaceFirst(key, outPrefix, <<>>))

\* the names one listing output adds to the list, Contents first
pageNames(output) ==
  SelectSeq([i \in 1..Len(output.Contents) |-> entryName(output.Contents[i], output.Prefix)],
            LAMBDA k : Len(k) > 0)
  \o SelectSeq([i \in 1..Len(output.CommonPrefixes) |->
                  entryName(output.CommonPrefixes[i], output.Prefix)],
               LAMBDA k : Len(k) > 0)

ListReq(bk, prefix, marker, ans) ==
  [cmd |-> "ListObjects", Bucket |-> bk, Key |-> prefix, Marker |-> marker, ans |-> ans]

\* a readdir that returns without what it accumulated
readdirReturnEmpty(list, q) ==
  /\ ret' = Ret("readdir", rd.path, "ok", <<>>)
  /\ reqs' = q
  /\ rd' = RdIdle

readdirReturn(list, q) ==
  /\ ret' = Ret("readdir", rd.path, "ok", ArraySort(list))
  /\ reqs' = q
  /\ rd' = RdIdle

\* fs.promises.readdir: the names in the directory, in the order the
\* platform gives them
readdirFsRets(p) ==
  LET q == FsPath(p)
      names == {FsBaseName(x) : x \in {y \in fsDirs \cup DOMAIN fsFiles : FsParent(y) = q}}
  IN  IF FsIsDir(q) THEN {Ret("readdir", p, "ok", order) : order \in Perms(names)}
      ELSE {Ret("readdir", p, "throw", IF FsIsFile(q) THEN "ENOTDIR" ELSE "ENOENT")}

readdir(p, b) ==
  /\ Idle
  /\ IF cfg.useFileSystem THEN
       /\ ret' \in readdirFsRets(p)
       /\ reqs' = <<>>
       /\ rd' = rd
     ELSE
       /\ rd' = [pc |-> "loop", path |-> p, Bucket |-> BucketOf(b),
                 Prefix |-> normalizeDirKey(p), Marker |-> <<>>, list |-> <<>>, n |-> 0,
                 reqs |-> <<>>]
       /\ reqs' = reqs
       /\ ret' = ret
  /\ UNCHANGED <<cfg, s3Client, life, bucket, pageSize, fsDirs, fsFiles, written, rs, ws>>

\* one iteration of while (truncated): a listing request and its handler,
\* or the catch; the iteration that clears truncated returns list.sort()
readdirPage ==
  /\ rd.pc = "loop"
  /\ rd.n < MaxRequests
  /\ IF ~s3Client THEN readdirReturn(rd.list, rd.reqs)
     ELSE \E ans \in Answers :
       LET rq == ListReq(rd.Bucket, rd.Prefix, rd.Marker, ans) IN
       IF ans # "ok" THEN readdirReturn(rd.list, Append(rd.reqs, rq))
       ELSE
         LET output == ListObjects(rd.Bucket, rd.Prefix, TRUE, rd.Marker)
             list == rd.list \o pageNames(output)
             pageMarker == IF output.Contents = <<>> THEN <<>>
                           ELSE output.Contents[Len(output.Contents)]
             truncated == output.IsTruncated
                            /\ (output.Contents = <<>> \/ Truthy(pageMarker))
         IN  IF truncated
               THEN /\ rd' = [rd EXCEPT !.list = list, !.n = @ + 1, !.reqs = Append(@, rq),
                                        !.Marker = IF output.Contents = <<>> THEN @ ELSE pageMarker]
                    /\ reqs' = reqs
                    /\ ret' = ret
               ELSE readdirReturn(list, Append(rd.reqs, rq))
  /\ UNCHANGED <<cfg, s3Client, life, bucket, pageSize, fsDirs, fsFiles, written, rs, ws>>

--------------------------------------------------------------------------
(* The service under a caller that awaits each call *)

Next ==
  \/ onModuleInit
  \/ \E p \in DirPaths, b \in BucketArgs : mkdir(p, b)
  \/ \E p \in DirPaths, b \in BucketArgs : readdir(p, b)
  \/ readdirPage
  \/ \E p \in DirPaths, b \in BucketArgs : rmdir(p, b)
  \/ \E p \in Paths, b \in BucketArgs : exists(p, b)
  \/ \E p \in FilePaths, b \in BucketArgs : writeFile(p, BufferArg, b)
  \/ \E p \in FilePaths, b \in BucketArgs : rm(p, b)

\* directory and file calls on a tree two levels deep, in filesystem mode and
\* in object-store mode with and without the client handle
Spec == Init /\ [][Next]_vars

CallsOptions ==
  {FsOptions(<<>>), FsOptions(<<"r">>), S3Options(FALSE, TRUE, "none"),
   S3Options(TRUE, TRUE, "none"), S3Options(TRUE, FALSE, "none")} \cup IncompleteOptions

InitCalls ==
  /\ InitService(CallsOptions, {MaxPageSize})
  /\ rs = StreamIdle
  /\ ws = StreamIdle

NextCalls ==
  \/ onModuleInit
  \/ onModuleDestroy
  \/ \E p \in CallDirPaths, b \in BucketArgs : mkdir(p, b)
  \/ \E p \in CallDirPaths, b \in BucketArgs : readdir(p, b)
  \/ readdirPage
  \/ \E p \in CallDirPaths, b \in BucketArgs : rmdir(p, b)
  \/ \E p \in CallFilePaths, b \in BucketArgs : exists(p, b)
  \/ \E p \in CallFilePaths, b \in BucketArgs : readFile(p, b)
  \/ \E p \in CallFilePaths, d \in DataArgs, b \in BucketArgs : writeFile(p, d, b)
  \/ \E p \in CallFilePaths, b \in BucketArgs : rm(p, b)
  \/ \E p \in CallFilePaths, o \in SignedUrlOpts : getSignedUrl(p, o)
  \/ \E p \in CallFilePaths, o \in SignedUrlOpts : getSignedPutUrl(p, o)

\* every awaited call, in every configuration (filesystem with and without a
\* prefix, object store with and without a CDN, incomplete credentials)
SpecCalls == InitCalls /\ [][NextCalls]_vars

--------------------------------------------------------------------------
(* Two services, one per mode, given the same calls *)

\* The caller holds a service on the object store and a service on the
\* filesystem. It makes a call on the first (cfg holds that service's
\* fields), then the same call on the second; the stores of the two are
\* bucket and fsDirs/fsFiles. ret then holds both results.

MirrorS3 == Construct(S3Options(FALSE, TRUE, "none"))
MirrorFs == Construct(FsOptions(<<>>))

MirrorDirPaths == {PA, PAB}
MirrorFilePaths == {PAB, PAC}

\* no request of the last call was answered with a failure
AllAnswered == \A i \in DOMAIN reqs : reqs[i].ans # "failure"

\* the caller is ready for its next call on the object-store service
MirrorReady ==
  /\ Idle /\ ~cfg.useFileSystem /\ s3Client
  /\ ret.op = "onModuleInit" \/ ret.kind = "both"

\* the call on the object-store service succeeded: the caller turns to the
\* filesystem service
mirrorTurn ==
  /\ Idle /\ ~cfg.useFileSystem
  /\ ret.op \in {"mkdir", "writeFile", "rm", "rmdir", "exists", "readdir"}
  /\ ret.kind = "ok" /\ AllAnswered
  /\ cfg' = MirrorFs
  /\ UNCHANGED <<s3Client, life, bucket, pageSize, fsDirs, fsFiles, ret, reqs, rd, written, rs, ws>>

\* the same call on the filesystem service; the caller keeps both results
\* and turns back to the object-store service
mirrorCall ==
  /\ cfg.useFileSystem
  /\ \E o \in (CASE ret.op = "mkdir" -> {mkdirOutcome(ret.path, Undefined, "ok")}
                 [] ret.op = "writeFile" -> {writeFileOutcome(ret.path, BufferArg, Undefined, "ok")}
                 [] ret.op = "rm" -> {rmOutcome(ret.path, Undefined, "ok")}
                 [] ret.op = "rmdir" -> {rmdirOutcome(ret.path, Undefined, "ok", "ok")}
                 [] ret.op = "exists" -> {existsOutcome(ret.path, Undefined, "ok", "ok")}
                 [] ret.op = "readdir" -> {Outcome(r, <<>>) : r \in readdirFsRets(ret.path)}) :
       /\ fsDirs' = o.fsDirs
       /\ fsFiles' = o.fsFiles
       /\ ret' = Ret(ret.op, ret.path, IF o.ret.kind = "ok" THEN "both" ELSE "one",
                     [s3 |-> ret.val, fs |-> o.ret.val])
  /\ cfg' = MirrorS3
  /\ UNCHANGED <<s3Client, life, bucket, pageSize, reqs, rd, written, rs, ws>>

InitMirror ==
  /\ InitService({S3Options(FALSE, TRUE, "none")}, {MaxPageSize})
  /\ rs = StreamIdle
  /\ ws = StreamIdle

NextMirror ==
  \/ ~s3Client /\ onModuleInit
  \/ MirrorReady /\ \E p \in MirrorDirPaths : mkdir(p, Undefined)
  \/ MirrorReady /\ \E p \in MirrorFilePaths : writeFile(p, BufferArg, Undefined)
  \/ MirrorReady /\ \E p \in MirrorFilePaths : rm(p, Undefined)
  \/ MirrorReady /\ \E p \in MirrorDirPaths : rmdir(p, Undefined)
  \/ MirrorReady /\ \E p \in MirrorDirPaths \cup MirrorFilePaths : exists(p, Undefined)
  \/ MirrorReady /\ \E p \in MirrorDirPaths : readdir(p, Undefined)
  \/ readdirPage
  \/ mirrorTurn
  \/ mirrorCall

\* the same calls on an object-store service and on a filesystem service,
\* for as long as every call succeeds on both
SpecMirror == InitMirror /\ [][NextMirror]_vars

--------------------------------------------------------------------------
(* Key normalization on its own *)

\* longest path given to the normalizations
MaxKeyLen == 3

KeyChars == {"a", ".", "/", "\\"}

\* every path of at most MaxKeyLen characters, the empty path included
KeyInputs == UNION {[1..n -> KeyChars] : n \in 0..MaxKeyLen}

\* this.normalizeKey(p), as every operation on a file calls it
normalizeKeyCall(p) ==
  /\ ret' = Ret("normalizeKey", p, "ok", normalizeKey(p))
  /\ UNCHANGED <<cfg, s3Client, life, bucket, pageSize, fsDirs, fsFiles, reqs, rd, written, rs, ws>>

\* this.normalizeDirKey(p), as every operation on a directory calls it
normalizeDirKeyCall(p) ==
  /\ ret' = Ret("normalizeDirKey", p, "ok", normalizeDirKey(p))
  /\ UNCHANGED <<cfg, s3Client, life, bucket, pageSize, fsDirs, fsFiles, reqs, rd, written, rs, ws>>

InitKeys ==
  /\ InitService({S3Options(FALSE, TRUE, "none")}, {MaxPageSize})
  /\ rs = StreamIdle
  /\ ws = StreamIdle

NextKeys ==
  \/ \E p \in KeyInputs : normalizeKeyCall(p)
  \/ \E p \in KeyInputs : normalizeDirKeyCall(p)

\* the two normalizations applied to every short path
SpecKeys == InitKeys /\ [][NextKeys]_vars

--------------------------------------------------------------------------
(* The calls of a service configured with a prefix *)

Prefix == <<"r">>

PrefixOptions == {FsOptions(Prefix), [S3Options(FALSE, TRUE, "none") EXCEPT !.prefix = Prefix]}

InitPrefix ==
  /\ InitService(PrefixOptions, {MaxPageSize})
  /\ rs = StreamIdle
  /\ ws = StreamIdle

\* every awaited call, in both modes, with the prefix option set
SpecPrefix == InitPrefix /\ [][NextCalls]_vars

--------------------------------------------------------------------------
(* Signed URLs under the ways an endpoint can be written *)

\* origin and CDN endpoints: with and without a trailing separator, and a
\* CDN endpoint without a scheme
OriginEndpoints == {Origin, Origin \o <<"/">>}
CdnEndpoints == {Cdn, Cdn \o <<"/">>, StripScheme(Cdn)}

UrlOptions ==
  {[S3Options(TRUE, ps, "none") EXCEPT !.endpoint = e, !.endpointCDN = c] :
     ps \in BOOLEAN, e \in OriginEndpoints, c \in CdnEndpoints}

\* keys with and without the text of the origin host in them
UrlPaths == {PAB, <<"o", "/", "b">>}

InitUrls ==
  /\ InitService(UrlOptions, {MaxPageSize})
  /\ rs = StreamIdle
  /\ ws = StreamIdle

NextUrls ==
  \/ onModuleInit
  \/ \E p \in UrlPaths, o \in SignedUrlOpts : getSignedUrl(p, o)
  \/ \E p \in UrlPaths, o \in SignedUrlOpts : getSignedPutUrl(p, o)

\* the signed-URL calls of an object store behind a CDN
SpecUrls == InitUrls /\ [][NextUrls]_vars

--------------------------------------------------------------------------
(* createReadStream: the call, then the background get and the pipe *)

\* the objects read as streams are byte sequences; a body arrives byte by byte
StreamData == [type |-> "Buffer", bytes |-> <<7, 8, 9>>]

\* opts of createReadStream: start and end are absent (<<>>) or a number
ReadOpts == {[start |-> <<>>, end |-> <<>>], [start |-> <<1>>, end |-> <<>>],
             [start |-> <<>>, end |-> <<1>>], [start |-> <<1>>, end |-> <<5>>],
             [start |-> <<3>>, end |-> <<>>]}

\* the Range of the get: absent (<<>>) unless start or end is a number, else
\* bytes=<start or 0>-<end or nothing>, kept as <<first, last>> with last = -1
\* for an open end
RangeHeader(opts) ==
  IF opts.start # <<>> \/ opts.end # <<>>
    THEN <<<<IF opts.start # <<>> THEN opts.start[1] ELSE 0,
             IF opts.end # <<>> THEN opts.end[1] ELSE -1>>>>
    ELSE <<>>

\* GetObject with a Range: the bytes first..last of the body (last clipped
\* to the body); a first byte beyond the body is not satisfiable
GetObjectRange(body, range) ==
  IF range = <<>> THEN [status |-> "ok", body |-> body]
  ELSE LET first == range[1][1]
           last == IF range[1][2] = -1 \/ range[1][2] >= Len(body) THEN Len(body) - 1
                   ELSE range[1][2]
       IN  IF first >= Len(body) THEN [status |-> "InvalidRange", body |-> <<>>]
           ELSE [status |-> "ok", body |-> SubSeq(body, first + 1, last + 1)]

createReadStream(p, opts, b) ==
  /\ Idle
  /\ rs.pc # "open"
  /\ IF cfg.useFileSystem THEN
       /\ rs' = [pc |-> "native", path |-> FsPath(p)]
       /\ ret' = Ret("createReadStream", p, "ok", "ReadStream")
     ELSE IF ~s3Client THEN
       /\ rs' = rs
       /\ ret' = Ret("createReadStream", p, "throw", "TypeError")
     ELSE
       /\ rs' = [pc |-> "open", Bucket |-> BucketOf(b), Key |-> normalizeKey(p),
                 Range |-> RangeHeader(opts), opts |-> opts,
                 get |-> "pending", object |-> <<>>, body |-> <<>>, bodyState |-> "none",
                 buffer |-> <<>>, ended |-> FALSE, delivered |-> <<>>, events |-> <<>>]
       /\ ret' = Ret("createReadStream", p, "ok", "PassThrough")
  /\ reqs' = <<>>
  /\ UNCHANGED <<cfg, s3Client, life, bucket, pageSize, fsDirs, fsFiles, rd, written, ws>>

RsUnchanged == UNCHANGED <<cfg, s3Client, life, bucket, pageSize, fsDirs, fsFiles, ret, rd, written, ws>>

\* the get settles: .then(({ Body }) => Body.pipe(pass)) or
\* .catch((err) => pass.destroy(err))
rsGetSettles ==
  /\ rs.pc = "open" /\ rs.get = "pending"
  /\ \E ans \in Answers :
       LET found == rs.Key \in DOMAIN bucket[rs.Bucket]
           got == IF found THEN GetObjectRange(bucket[rs.Bucket][rs.Key], rs.Range)
                  ELSE [status |-> "NoSuchKey", body |-> <<>>]
       IN  /\ reqs' = Append(reqs, Req("GetObject", rs.Bucket, rs.Key,
                                       IF ans # "ok" THEN ans ELSE got.status))
           /\ IF ans = "ok" /\ got.status = "ok"
                THEN rs' = [rs EXCEPT !.get = "resolved", !.body = got.body,
                                      !.object = bucket[rs.Bucket][rs.Key],
                                      !.bodyState = "flowing"]
                ELSE rs' = [rs EXCEPT !.get = "rejected", !.events = Append(@, "error")]
  /\ RsUnchanged

\* the pipe: a chunk of the body is written to the pass-through
rsBodyData ==
  /\ rs.pc = "open" /\ rs.bodyState = "flowing" /\ rs.body # <<>>
  /\ rs' = [rs EXCEPT !.body = Tail(@), !.buffer = Append(@, Head(rs.body))]
  /\ reqs' = reqs
  /\ RsUnchanged

\* the pipe: the body ends, the pass-through is ended
rsBodyEnd ==
  /\ rs.pc = "open" /\ rs.bodyState = "flowing" /\ rs.body = <<>>
  /\ rs' = [rs EXCEPT !.bodyState = "ended", !.ended = TRUE]
  /\ reqs' = reqs
  /\ RsUnchanged

\* the remote body fails in mid-transfer: pipe() forwards no error of its
\* source and does not end its destination
rsBodyError ==
  /\ rs.pc = "open" /\ rs.bodyState = "flowing"
  /\ rs' = [rs EXCEPT !.bodyState = "failed"]
  /\ reqs' = reqs
  /\ RsUnchanged

\* the caller reads what the pass-through holds
rsConsume ==
  /\ rs.pc = "open" /\ rs.buffer # <<>> /\ "error" \notin Range(rs.events)
  /\ rs' = [rs EXCEPT !.buffer = Tail(@), !.delivered = Append(@, Head(rs.buffer))]
  /\ reqs' = reqs
  /\ RsUnchanged

\* the pass-through, ended and drained, emits 'end'
rsEnd ==
  /\ rs.pc = "open" /\ rs.ended /\ rs.buffer = <<>> /\ rs.events = <<>>
  /\ rs' = [rs EXCEPT !.events = Append(@, "end")]
  /\ reqs' = reqs
  /\ RsUnchanged

\* a step of the stream that createReadStream returned
RsStep == rsGetSettles \/ rsBodyData \/ rsBodyEnd \/ rsBodyError \/ rsConsume \/ rsEnd

StreamPaths == {PAB}

RsOptions == {S3Options(FALSE, TRUE, "none"), S3Options(FALSE, TRUE, "region")}

InitRS ==
  /\ InitService(RsOptions, {MaxPageSize})
  /\ rs = StreamIdle
  /\ ws = StreamIdle

NextRS ==
  \/ onModuleInit
  \/ \E p \in StreamPaths, b \in BucketArgs : writeFile(p, StreamData, b)
  \/ \E p \in StreamPaths, o \in ReadOpts, b \in BucketArgs : createReadStream(p, o, b)
  \/ rsGetSettles
  \/ rsBodyData
  \/ rsBodyEnd
  \/ rsBodyError
  \/ rsConsume
  \/ rsEnd

\* one read stream at a time over an object of three bytes
SpecRS == InitRS /\ [][NextRS]_vars

--------------------------------------------------------------------------
(* createWriteStream: the call, the pass-through, the multi-part upload *)

MaxChunks == 4

MinPartSize == 5 * 1024 * 1024
DefaultQueueSize == 4
DefaultHighWaterMark == 16 * 1024

\* the caller writes chunks of ChunkSize bytes; chunk i is the byte block <<i>>
ChunkSize == MinPartSize

\* options of createWriteStream: each is absent (<<>>) or a number
WriteOpts == {[highWaterMark |-> <<>>, partSize |-> <<>>, queueSize |-> <<>>],
              [highWaterMark |-> <<>>, partSize |-> <<1>>, queueSize |-> <<1>>],
              [highWaterMark |-> <<2 * ChunkSize>>, partSize |-> <<2 * ChunkSize>>,
               queueSize |-> <<2>>]}

Max(a, b) == IF a >= b THEN a ELSE b

\* a part size taken as requested
uploadPartSizeAsRequested(o) == IF o.partSize # <<>> THEN o.partSize[1] ELSE MinPartSize

\* partSize: Math.max(options?.partSize ?? 5 MiB, 5 MiB)
uploadPartSize(o) == Max(IF o.partSize # <<>> THEN o.partSize[1] ELSE MinPartSize, MinPartSize)

\* queueSize: options?.queueSize ?? 4
uploadQueueSize(o) == IF o.queueSize # <<>> THEN o.queueSize[1] ELSE DefaultQueueSize

\* new PassThrough({ highWaterMark: options?.highWaterMark })
passHighWaterMark(o) ==
  IF o.highWaterMark # <<>> THEN o.highWaterMark[1] ELSE DefaultHighWaterMark

Event(ev, w) == [ev |-> ev, uploadDone |-> w.upload = "completed"]

createWriteStream(p, o, b) ==
  /\ Idle
  /\ ws.pc # "open"
  /\ IF cfg.useFileSystem THEN
       /\ ws' = [pc |-> "native", path |-> FsPath(p)]
       /\ ret' = Ret("createWriteStream", p, "ok", "WriteStream")
     ELSE IF ~s3Client THEN
       /\ ws' = ws
       /\ ret' = Ret("createWriteStream", p, "throw", "Error")
     ELSE
       /\ ws' = [pc |-> "open", path |-> p, Bucket |-> BucketOf(b), Key |-> normalizeKey(p),
                 highWaterMark |-> passHighWaterMark(o),
                 partSize |-> uploadPartSize(o), queueSize |-> uploadQueueSize(o),
                 nwritten |-> 0, wbuf |-> <<>>, rbuf |-> <<>>,
                 ended |-> FALSE, finished |-> FALSE, readEnded |-> FALSE,
                 destroyed |-> FALSE, events |-> <<>>,
                 upload |-> "running", mpu |-> "none", acc |-> <<>>, nextPart |-> 1,
                 inflight |-> {}, parts |-> {}]
       /\ ret' = Ret("createWriteStream", p, "ok", "PassThrough")
  /\ reqs' = <<>>
  /\ UNCHANGED <<cfg, s3Client, life, bucket, pageSize, fsDirs, fsFiles, rd, written, rs>>

WsUnchanged == UNCHANGED <<cfg, s3Client, life, pageSize, fsDirs, fsFiles, ret, rd, rs>>

WsOpen == ws.pc = "open"

\* the caller writes the next chunk
wsWrite ==
  /\ WsOpen /\ ~ws.ended /\ ~ws.destroyed /\ ws.nwritten < MaxChunks
  /\ ws' = [ws EXCEPT !.nwritten = @ + 1, !.wbuf = Append(@, ws.nwritten + 1)]
  /\ UNCHANGED <<bucket, written, reqs>>
  /\ WsUnchanged

\* the caller ends the stream
wsEnd ==
  /\ WsOpen /\ ~ws.ended /\ ~ws.destroyed
  /\ ws' = [ws EXCEPT !.ended = TRUE]
  /\ UNCHANGED <<bucket, written, reqs>>
  /\ WsUnchanged

\* the pass-through moves a written chunk to its readable side while that
\* side holds less than highWaterMark
wsTransform ==
  /\ WsOpen /\ ~ws.destroyed /\ ws.wbuf # <<>>
  /\ Len(ws.rbuf) * ChunkSize < ws.highWaterMark
  /\ ws' = [ws EXCEPT !.wbuf = Tail(@), !.rbuf = Append(@, Head(ws.wbuf))]
  /\ UNCHANGED <<bucket, written, reqs>>
  /\ WsUnchanged

\* the pass-through, ended with every write processed, signals the end of
\* its readable side and emits 'finish' of its own
wsFinish ==
  /\ WsOpen /\ ~ws.destroyed /\ ws.ended /\ ws.wbuf = <<>> /\ ~ws.finished
  /\ ws' = [ws EXCEPT !.finished = TRUE, !.events = Append(@, Event("finish", ws))]
  /\ UNCHANGED <<bucket, written, reqs>>
  /\ WsUnchanged

\* the pass-through destroys itself once both of its sides are done
wsAutoDestroy ==
  /\ WsOpen /\ ~ws.destroyed /\ ws.finished /\ ws.readEnded
  /\ ws' = [ws EXCEPT !.destroyed = TRUE, !.events = Append(@, Event("close", ws))]
  /\ UNCHANGED <<bucket, written, reqs>>
  /\ WsUnchanged

\* upload.done() rejects: the parts are aborted (leavePartsOnError: false),
\* then (err) => pass.destroy(err), which is nothing on a destroyed stream
UploadFails(w, abortAns) ==
  LET a == IF w.mpu = "created" /\ abortAns = "ok"
             THEN [w EXCEPT !.mpu = "aborted", !.parts = {}, !.inflight = {}]
             ELSE [w EXCEPT !.inflight = {}]
      f == [a EXCEPT !.upload = "failed"]
  IN  IF f.destroyed THEN f
      ELSE [f EXCEPT !.destroyed = TRUE, !.events = Append(@, Event("error", f))]

AbortReqs(w, abortAns) ==
  IF w.mpu = "created" THEN <<Req("AbortMultipartUpload", w.Bucket, w.Key, abortAns)>> ELSE <<>>

\* upload.done() resolves: () => pass.emit('finish')
UploadCompletes(w) ==
  LET c == [w EXCEPT !.upload = "completed"]
  IN  [c EXCEPT !.events = Append(@, Event("finish", c))]

\* the part made of the chunks in data is sent: the only part of a short body
\* as one PutObject, else as a part of the multi-part upload, which the first
\* such part creates
Dispatch(w, data, last, ans, abortAns) ==
  IF w.nextPart = 1 /\ last THEN
    [w |-> [w EXCEPT !.acc = SubSeq(@, Len(data) + 1, Len(@)), !.nextPart = 2,
                     !.inflight = {[n |-> 1, data |-> data, put |-> TRUE]}],
     reqs |-> <<>>]
  ELSE IF w.mpu = "none" /\ ans # "ok" THEN
    [w |-> UploadFails(w, abortAns),
     reqs |-> <<Req("CreateMultipartUpload", w.Bucket, w.Key, ans)>>]
  ELSE
    [w |-> [w EXCEPT !.acc = SubSeq(@, Len(data) + 1, Len(@)), !.nextPart = @ + 1, !.mpu = "created",
                     !.inflight = @ \cup {[n |-> w.nextPart, data |-> data, put |-> FALSE]}],
     reqs |-> IF w.mpu = "none"
                THEN <<Req("CreateMultipartUpload", w.Bucket, w.Key, ans)>> ELSE <<>>]

\* the upload reads a chunk of its Body; once it holds more than partSize
\* bytes, the first partSize bytes make a part
uploadRead ==
  /\ WsOpen /\ ws.upload = "running" /\ ws.rbuf # <<>>
  /\ Cardinality(ws.inflight) < ws.queueSize
  /\ \E ans \in Answers, abortAns \in Answers :
       LET r == [ws EXCEPT !.rbuf = Tail(@), !.acc = Append(@, Head(ws.rbuf))]
           d == IF Len(r.acc) * ChunkSize > r.partSize
                  THEN Dispatch(r, SubSeq(r.acc, 1, r.partSize \div ChunkSize), FALSE,
                                ans, abortAns)
                  ELSE [w |-> r, reqs |-> <<>>]
       IN  /\ ws' = d.w
           /\ reqs' = reqs \o d.reqs
  /\ UNCHANGED <<bucket, written>>
  /\ WsUnchanged

\* the upload reads the end of its Body; what is left makes the last part
uploadEnd ==
  /\ WsOpen /\ ws.upload = "running" /\ ws.finished /\ ws.rbuf = <<>> /\ ~ws.readEnded
  /\ Cardinality(ws.inflight) < ws.queueSize
  /\ \E ans \in Answers, abortAns \in Answers :
       LET r == [ws EXCEPT !.readEnded = TRUE]
           d == IF r.acc # <<>> \/ r.nextPart = 1
                  THEN Dispatch(r, r.acc, TRUE, ans, abortAns)
                  ELSE [w |-> r, reqs |-> <<>>]
       IN  /\ ws' = d.w
           /\ reqs' = reqs \o d.reqs
  /\ UNCHANGED <<bucket, written>>
  /\ WsUnchanged

\* a part in flight is answered
uploadPartSettles ==
  /\ WsOpen /\ ws.upload = "running"
  /\ \E part \in ws.inflight, ans \in Answers, abortAns \in Answers :
       LET cmd == IF part.put THEN "PutObject" ELSE "UploadPart"
           r == [ws EXCEPT !.inflight = @ \ {part}]
       IN  IF ans # "ok" THEN
             /\ ws' = UploadFails(r, abortAns)
             /\ reqs' = Append(reqs, Req(cmd, ws.Bucket, ws.Key, ans)) \o AbortReqs(r, abortAns)
             /\ UNCHANGED <<bucket, written>>
           ELSE IF part.put THEN
             /\ ws' = UploadCompletes(r)
             /\ reqs' = Append(reqs, Req(cmd, ws.Bucket, ws.Key, ans))
             /\ bucket' = [bucket EXCEPT ![ws.Bucket] = MapPut(@, ws.Key, part.data)]
             /\ written' = MapPut(written, ws.path, part.data)
           ELSE
             /\ ws' = [r EXCEPT !.parts = @ \cup {part}]
             /\ reqs' = Append(reqs, Req(cmd, ws.Bucket, ws.Key, ans))
             /\ UNCHANGED <<bucket, written>>
  /\ WsUnchanged

\* the caller destroys the stream with an error before it finished: the
\* upload's read of its Body fails
wsSourceError ==
  /\ WsOpen /\ ws.upload = "running" /\ ~ws.destroyed /\ ~ws.finished
  /\ \E abortAns \in Answers :
       LET d == [ws EXCEPT !.destroyed = TRUE, !.events = Append(@, Event("error", ws))]
       IN  /\ ws' = UploadFails(d, abortAns)
           /\ reqs' = reqs \o AbortReqs(d, abortAns)
  /\ UNCHANGED <<bucket, written>>
  /\ WsUnchanged

RECURSIVE ConcatParts(_, _)
\* the data of the parts numbered n and up, in the order of their numbers
ConcatParts(ps, n) ==
  IF \A q \in ps : q.n < n THEN <<>>
  ELSE LET here == {q \in ps : q.n = n}
       IN  (IF here = {} THEN <<>> ELSE (CHOOSE q \in here : TRUE).data) \o ConcatParts(ps, n + 1)

\* every part is stored: the multi-part upload is completed
uploadComplete ==
  /\ WsOpen /\ ws.upload = "running" /\ ws.readEnded /\ ws.inflight = {} /\ ws.mpu = "created"
  /\ \E ans \in Answers, abortAns \in Answers :
       IF ans = "ok" THEN
         /\ ws' = UploadCompletes([ws EXCEPT !.mpu = "completed"])
         /\ reqs' = Append(reqs, Req("CompleteMultipartUpload", ws.Bucket, ws.Key, ans))
         /\ bucket' = [bucket EXCEPT ![ws.Bucket] = MapPut(@, ws.Key, ConcatParts(ws.parts, 1))]
         /\ written' = MapPut(written, ws.path, ConcatParts(ws.parts, 1))
       ELSE
         /\ ws' = UploadFails(ws, abortAns)
         /\ reqs' = Append(reqs, Req("CompleteMultipartUpload", ws.Bucket, ws.Key, ans))
                      \o AbortReqs(ws, abortAns)
         /\ UNCHANGED <<bucket, written>>
  /\ WsUnchanged

WsOptions == {S3Options(FALSE, TRUE, "none"), S3Options(FALSE, TRUE, "accessKeyId")}

InitWS ==
  /\ InitService(WsOptions, {MaxPageSize})
  /\ rs = StreamIdle
  /\ ws = StreamIdle

NextWS ==
  \/ onModuleInit
  \/ \E p \in StreamPaths, o \in WriteOpts, b \in BucketArgs : createWriteStream(p, o, b)
  \/ wsWrite
  \/ wsEnd
  \/ wsTransform
  \/ wsFinish
  \/ wsAutoDestroy
  \/ uploadRead
  \/ uploadEnd
  \/ uploadPartSettles
  \/ uploadComplete
  \/ wsSourceError

\* one write stream at a time, of up to MaxChunks chunks
SpecWS == InitWS /\ [][NextWS]_vars

--------------------------------------------------------------------------
(* The calls with and without a bucket of the caller's *)

BucketCallArgs == {Undefined, OtherBucket}

BucketDirPaths == {PA}
BucketFilePaths == {PAB}

BucketSignedUrlOpts == {[bucket |-> b, hint |-> <<>>] : b \in BucketCallArgs}

BucketReadOpts == {[start |-> <<>>, end |-> <<>>]}
BucketWriteOpts == {[highWaterMark |-> <<>>, partSize |-> <<>>, queueSize |-> <<>>]}

BucketOptions == {FsOptions(<<>>), S3Options(FALSE, TRUE, "none"), S3Options(TRUE, TRUE, "none")}

InitBuckets ==
  /\ InitService(BucketOptions, {MaxPageSize})
  /\ rs = StreamIdle
  /\ ws = StreamIdle

\* the caller has no stream open
StreamsIdle == rs.pc = "idle" /\ ws.pc = "idle"

NextBuckets ==
  \/ ~s3Client /\ onModuleInit
  \/ StreamsIdle /\ \E p \in BucketDirPaths, b \in BucketCallArgs : mkdir(p, b)
  \/ StreamsIdle /\ \E p \in BucketDirPaths, b \in BucketCallArgs : readdir(p, b)
  \/ readdirPage
  \/ StreamsIdle /\ \E p \in BucketDirPaths, b \in BucketCallArgs : rmdir(p, b)
  \/ StreamsIdle /\ \E p \in BucketFilePaths, b \in BucketCallArgs : exists(p, b)
  \/ StreamsIdle /\ \E p \in BucketFilePaths, b \in BucketCallArgs : readFile(p, b)
  \/ StreamsIdle /\ \E p \in BucketFilePaths, b \in BucketCallArgs : writeFile(p, BufferArg, b)
  \/ StreamsIdle /\ \E p \in BucketFilePaths, b \in BucketCallArgs : rm(p, b)
  \/ StreamsIdle /\ \E p \in BucketFilePaths, o \in BucketSignedUrlOpts : getSignedUrl(p, o)
  \/ StreamsIdle /\ \E p \in BucketFilePaths, o \in BucketSignedUrlOpts : getSignedPutUrl(p, o)
  \/ StreamsIdle /\ \E p \in BucketFilePaths, o \in BucketReadOpts, b \in BucketCallArgs :
                      createReadStream(p, o, b)
  \/ rsGetSettles
  \/ StreamsIdle /\ \E p \in BucketFilePaths, o \in BucketWriteOpts, b \in BucketCallArgs :
                      createWriteStream(p, o, b)
  \/ wsEnd
  \/ wsFinish
  \/ uploadEnd
  \/ uploadPartSettles

\* every operation, each with the configured bucket and with another one, up
\* to the first stream and its requests
SpecBuckets == InitBuckets /\ [][NextBuckets]_vars

--------------------------------------------------------------------------
(* Directories whose names are prefixes of one another *)

PAx  == <<"a", "/", "x">>
PB   == <<"a", "b">>
PBx  == <<"a", "b", "/", "x">>

SiblingDirPaths  == {PA, PB}
SiblingFilePaths == {PA, PB, PAx, PBx}

SiblingOptions == {S3Options(FALSE, TRUE, "none")}

InitSiblings ==
  /\ InitService(SiblingOptions, 1..MaxPageSize)
  /\ rs = StreamIdle
  /\ ws = StreamIdle

NextSiblings ==
  \/ onModuleInit
  \/ \E p \in SiblingDirPaths, b \in BucketArgs : mkdir(p, b)
  \/ \E p \in SiblingFilePaths, b \in BucketArgs : writeFile(p, BufferArg, b)
  \/ \E p \in SiblingDirPaths, b \in BucketArgs : rmdir(p, b)

\* the object store holding directories "a" and "ab", files in them and files
\* at their names, under mkdir, writeFile and rmdir
SpecSiblings == InitSiblings /\ [][NextSiblings]_vars

--------------------------------------------------------------------------
(* Claims *)

ObjectStoreMode == ~cfg.useFileSystem
NoFailureAnswer == \A i \in DOMAIN reqs : reqs[i].ans # "failure"
StorageCalls == {"mkdir", "readdir", "rmdir", "exists", "readFile", "writeFile", "rm",
                 "getSignedUrl", "getSignedPutUrl"}

\* C1: in every mode, once writeFile(p, data) has completed and no other
\* write, rm or rmdir touching p has run, a readFile(p) that the backend
\* serves returns exactly the bytes of data (of the last such write; a
\* string as its UTF-8 bytes).
C1_WriteReadRoundTrip ==
  (ret.op = "readFile" /\ ret.path \in DOMAIN written /\ NoFailureAnswer)
    => (ret.kind = "ok" /\ ret.val = written[ret.path])

\* C1 witness: through the CDN, the string written last is read back as its
\* UTF-8 bytes.
C1_Witness ==
  /\ ret.op = "readFile" /\ ret.kind = "ok"
  /\ ObjectStoreMode /\ Truthy(cfg.endpointCDN)
  /\ ret.path \in DOMAIN written
  /\ ret.val = <<97, 195, 169>>

\* the names of the immediate children of directory d in a bucket: the first
\* segment after "d/" of every key under it
ImmediateChildren(bk, d) ==
  {SplitSlash(AfterPrefix(k, d \o <<"/">>))[1] :
     k \in {x \in DOMAIN bucket[bk] : StartsWith(x, d \o <<"/">>) /\ Len(x) > Len(d) + 1}}

\* the entries a delimiter listing of directory d has, over all its pages
ListingEntries(bk, d) ==
  {ListEntry(k, d \o <<"/">>, TRUE) : k \in {x \in DOMAIN bucket[bk] : StartsWith(x, d \o <<"/">>)}}

\* C2 (as claimed): a readdir in object-store mode whose listing requests all
\* succeed returns, and returns the name of every immediate child: it has
\* returned before it has issued more requests than the listing has entries,
\* and the list it returns holds every child.
C2_Claimed ==
  (ObjectStoreMode /\ s3Client) =>
    /\ rd.pc = "loop" => rd.n <= Cardinality(ListingEntries(rd.Bucket, rd.path))
    /\ (ret.op = "readdir" /\ NoFailureAnswer)
         => ImmediateChildren(cfg.bucket, ret.path) \subseteq Range(ret.val)

\* C3 (as claimed): the list readdir returns in object-store mode is sorted
\* and holds no name twice.
C3_Claimed ==
  (ObjectStoreMode /\ ret.op = "readdir" /\ ret.kind = "ok") =>
    \A i \in DOMAIN ret.val : \A j \in DOMAIN ret.val : i < j => StrLess(ret.val[i], ret.val[j])

\* C4 (as claimed): after a successful rmdir(d) nothing under d remains, in
\* both modes.
C4_Claimed ==
  (ret.op = "rmdir" /\ ret.kind = "ok") =>
    IF cfg.useFileSystem
      THEN \A x \in fsDirs \cup DOMAIN fsFiles : ~FsUnder(x, FsPath(ret.path))
      ELSE \A k \in DOMAIN bucket[cfg.bucket] : ~StartsWith(k, ret.path \o <<"/">>)

\* C5: in object-store mode, when both probes are answered by the store,
\* exists(p) is true exactly when an object is at the file key of p or a
\* marker is at the directory key of p.
C5_ExistsFileOrMarker ==
  (ret.op = "exists" /\ ObjectStoreMode /\ s3Client /\ NoFailureAnswer) =>
    /\ ret.kind = "ok"
    /\ ret.val = (normalizeKey(ret.path) \in DOMAIN bucket[cfg.bucket]
                  \/ normalizeDirKey(ret.path) \in DOMAIN bucket[cfg.bucket])

\* C5 witness: after mkdir(p) on an empty bucket (the marker only),
\* exists(p) returned true.
C5_Witness ==
  /\ ret.op = "exists" /\ ret.kind = "ok" /\ ObjectStoreMode
  /\ DOMAIN bucket[cfg.bucket] = {normalizeDirKey(ret.path)}
  /\ ret.val = TRUE

\* C6 (as claimed): in object-store mode an exists one of whose probes fails
\* with something other than not-found raises the failure.
C6_Claimed ==
  (ret.op = "exists" /\ ObjectStoreMode /\ ~NoFailureAnswer) => ret.kind = "throw"

FinishEvents == {i \in DOMAIN ws.events : ws.events[i].ev = "finish"}

\* C7 (as claimed): on the stream createWriteStream returned, every 'finish'
\* comes after the upload completed, there is at most one 'finish', and a
\* stream whose upload failed was destroyed with the error and shows no
\* 'finish'.
C7_Claimed ==
  ws.pc = "open" =>
    /\ \A i \in FinishEvents : ws.events[i].uploadDone
    /\ Cardinality(FinishEvents) <= 1
    /\ ws.upload = "failed" =>
         /\ \E i \in DOMAIN ws.events : ws.events[i].ev = "error"
         /\ FinishEvents = {}

\* the bytes createReadStream(p, opts) is asked for: from start (or the
\* first byte) to end inclusive (or the last byte)
RequestedBytes(object, opts) ==
  LET first == IF opts.start # <<>> THEN opts.start[1] ELSE 0
      last == IF opts.end # <<>> /\ opts.end[1] < Len(object) THEN opts.end[1] ELSE Len(object) - 1
  IN  SubSeq(object, first + 1, last + 1)

\* C8 (as claimed): with the client handle, createReadStream returns its
\* stream without throwing; a stream that ended delivered exactly the
\* requested bytes; and a stream with nothing left to happen has emitted
\* 'end' or 'error'.
C8_Claimed ==
  /\ (ret.op = "createReadStream" /\ ObjectStoreMode /\ s3Client) => ret.kind = "ok"
  /\ rs.pc = "open" =>
       /\ "end" \in Range(rs.events) => rs.delivered = RequestedBytes(rs.object, rs.opts)
       /\ ~ENABLED RsStep => rs.events # <<>>

\* C9 (as claimed): in object-store mode without the client handle every
\* storage call fails with an error.
C9_Claimed ==
  (ObjectStoreMode /\ ~s3Client /\ ret.op \in StorageCalls) => ret.kind = "throw"

\* C10: in filesystem mode every getSignedUrl and getSignedPutUrl call, for
\* every path and option set, before and after startup, throws the
\* unsupported-operation error, issues no backend request and changes no
\* state.
C10_SignedUrlUnsupported ==
  [][\A p \in CallFilePaths, o \in SignedUrlOpts :
       (cfg.useFileSystem /\ (getSignedUrl(p, o) \/ getSignedPutUrl(p, o))) =>
         /\ ret'.kind = "throw" /\ ret'.val = "Unsupported"
         /\ reqs' = <<>>
         /\ UNCHANGED <<cfg, s3Client, life, bucket, fsDirs, fsFiles, rd>>]_vars

\* C10 witness: after startup, with files on disk, a signed-URL call was
\* refused.
C10_Witness ==
  /\ cfg.useFileSystem /\ life = "started" /\ fsFiles # EmptyMap
  /\ ret.op = "getSignedPutUrl" /\ ret.kind = "throw" /\ ret.val = "Unsupported"


\* path and query of a URL: what follows its host
UrlPathQuery(url) ==
  LET r == SubSeq(url, IndexOf(url, <<"/", "/">>) + 2, Len(url))
      i == IndexOf(r, <<"/">>)
  IN  IF i = 0 THEN <<>> ELSE SubSeq(r, i, Len(r))

SignedUrlCalls == {"getSignedUrl", "getSignedPutUrl"}

\* C11 (as claimed): with a CDN endpoint configured, the URL a signed-URL call
\* returns has the CDN's host (after the bucket, when the bucket is in the
\* host) and not the origin's, and the path and query of the presigned URL.
C11_Claimed ==
  (ret.op \in SignedUrlCalls /\ ret.kind = "ok" /\ Truthy(cfg.endpointCDN)) =>
    LET presigned == reqs[1].Key
        cdnHost == EndpointHost(cfg.endpointCDN)
    IN  /\ UrlHost(ret.val) =
             (IF cfg.forcePathStyle THEN cdnHost ELSE <<reqs[1].Bucket, ".">> \o cdnHost)
        /\ UrlHost(ret.val) # UrlHost(presigned)
        /\ UrlPathQuery(ret.val) = UrlPathQuery(presigned)


\* whether the path or key k lies under the prefix x
UnderPrefix(k, x) == k = x \/ StartsWith(k, x \o <<"/">>)

KeyCommands == {"PutObject", "GetObject", "HeadObject", "DeleteObject", "ListObjects"}

\* C12 (as claimed): with a non-empty prefix, in filesystem mode every
\* directory and file the calls made is under the prefix, and in object-store
\* mode every key a call sends to the store, and every key stored, is under
\* the prefix.
C12_Claimed ==
  cfg.prefix # <<>> =>
    /\ cfg.useFileSystem =>
         \A x \in fsDirs \cup DOMAIN fsFiles : UnderPrefix(x, cfg.prefix)
    /\ ~cfg.useFileSystem =>
         /\ \A i \in DOMAIN reqs :
              reqs[i].cmd \in KeyCommands => UnderPrefix(reqs[i].Key, cfg.prefix)
         /\ \A b \in DOMAIN bucket : \A k \in DOMAIN bucket[b] : UnderPrefix(k, cfg.prefix)


\* C13 (as claimed): normalizing a normalized key changes nothing, for the
\* file key and for the directory key.
C13_Claimed ==
  /\ ret.op = "normalizeKey" => normalizeKey(ret.val) = ret.val
  /\ ret.op = "normalizeDirKey" => normalizeDirKey(ret.val) = ret.val


\* the number of '/' characters a string ends with
RECURSIVE TrailingSlashes(_)
TrailingSlashes(s) ==
  IF s # <<>> /\ s[Len(s)] = "/" THEN 1 + TrailingSlashes(SubSeq(s, 1, Len(s) - 1)) ELSE 0

\* C14: for every path, the directory key ends in exactly one '/' and the
\* file key does not end in '/'.
C14_TrailingDelimiter ==
  /\ ret.op = "normalizeDirKey" => TrailingSlashes(ret.val) = 1
  /\ ret.op = "normalizeKey" => TrailingSlashes(ret.val) = 0

\* C14 witness: normalizeDirKey was given a path that ends in two separators
\* and returned a key that ends in one.
C14_Witness ==
  /\ ret.op = "normalizeDirKey"
  /\ Len(ret.path) = 3 /\ ret.path[1] = "a" /\ TrailingSlashes(ret.path) = 2
  /\ ret.val = <<"a", "/">>


\* C15 (as claimed): after the same successful mkdir, writeFile, rm and rmdir
\* calls from empty stores, exists(p) returns the same on the filesystem
\* service and on the object-store service, and readdir(p) the same names.
C15_Claimed ==
  (ret.kind = "both" /\ ret.op = "exists" => ret.val.fs = ret.val.s3)
  /\ (ret.kind = "both" /\ ret.op = "readdir" => Range(ret.val.fs) = Range(ret.val.s3))


\* C16 (as claimed): once the upload behind createWriteStream has failed, no
\* part of it is stored on the backend and the destination key holds what it
\* held before the call (no object, the bucket being empty before).
C16_Claimed ==
  (ws.pc = "open" /\ ws.upload = "failed") =>
    /\ ws.parts = {}
    /\ ws.Key \notin DOMAIN bucket[ws.Bucket]


\* the bucket a call with bucket argument b is to use
ExpectedBucket(b) == IF b = Undefined THEN cfg.bucket ELSE b

\* a call made with bucket argument b (in the options, for the signed URLs)
CalledWith(b) ==
  \/ \E p \in BucketDirPaths : mkdir(p, b) \/ readdir(p, b) \/ rmdir(p, b)
  \/ \E p \in BucketFilePaths : exists(p, b) \/ readFile(p, b) \/ writeFile(p, BufferArg, b) \/ rm(p, b)
  \/ \E p \in BucketFilePaths, o \in BucketSignedUrlOpts :
       o.bucket = b /\ (getSignedUrl(p, o) \/ getSignedPutUrl(p, o))
  \/ \E p \in BucketFilePaths, o \in BucketReadOpts : createReadStream(p, o, b)
  \/ \E p \in BucketFilePaths, o \in BucketWriteOpts : createWriteStream(p, o, b)

\* the same call made without a bucket argument
CalledWithout ==
  \/ \E p \in BucketDirPaths : mkdir(p, Undefined) \/ readdir(p, Undefined) \/ rmdir(p, Undefined)
  \/ \E p \in BucketFilePaths :
       \/ exists(p, Undefined) \/ readFile(p, Undefined) \/ rm(p, Undefined)
       \/ writeFile(p, BufferArg, Undefined)
       \/ \E o \in BucketReadOpts : createReadStream(p, o, Undefined)
       \/ \E o \in BucketWriteOpts : createWriteStream(p, o, Undefined)
       \/ \E o \in BucketSignedUrlOpts :
            o.bucket = Undefined /\ (getSignedUrl(p, o) \/ getSignedPutUrl(p, o))

\* the bucket the step in progress works on: that of the loop or stream
BucketInProgress ==
  IF rd.pc = "loop" THEN rd.Bucket ELSE IF rs.pc = "open" THEN rs.Bucket ELSE ws.Bucket

OnlyBucketChanged(bk) == \A k \in DOMAIN bucket : k # bk => bucket'[k] = bucket[k]

RequestsTarget(q, bk) == \A i \in DOMAIN q : q[i].Bucket = bk

\* C17: in object-store mode a call with a bucket argument sends every
\* request to that bucket, a call without one to the configured bucket, the
\* later requests of a listing or stream go to the bucket of its call, and
\* no step changes another bucket; in filesystem mode a call with a bucket
\* argument does what the call without it does.
C17_BucketSelection ==
  [][/\ \A b \in BucketCallArgs :
          CalledWith(b) =>
            IF cfg.useFileSystem THEN b = Undefined \/ CalledWithout
            ELSE /\ rd'.pc = "loop" \/ RequestsTarget(reqs', ExpectedBucket(b))
                 /\ OnlyBucketChanged(ExpectedBucket(b))
                 /\ rd'.pc = "loop" => rd'.Bucket = ExpectedBucket(b)
                 /\ rs'.pc = "open" => rs'.Bucket = ExpectedBucket(b)
                 /\ ws'.pc = "open" => ws'.Bucket = ExpectedBucket(b)
     /\ (readdirPage \/ rsGetSettles \/ uploadEnd \/ uploadPartSettles) =>
          /\ reqs' = reqs \/ RequestsTarget(reqs', BucketInProgress)
          /\ OnlyBucketChanged(BucketInProgress)]_vars

\* C17 witness: a writeFile with the other bucket stored its object there
\* and left the configured bucket empty.
C17_Witness ==
  /\ ret.op = "writeFile" /\ ret.kind = "ok" /\ ObjectStoreMode
  /\ reqs # <<>> /\ reqs[1].Bucket = OtherBucket
  /\ DOMAIN bucket[OtherBucket] # {} /\ DOMAIN bucket[DefaultBucket] = {}


\* C18 (as claimed): every listing request of a readdir after the first uses
\* a marker strictly beyond the marker of the request before it, so that the
\* loop ends after finitely many requests.
C18_Claimed ==
  [][(readdirPage /\ rd'.pc = "loop") =>
       /\ rd'.Marker # <<>>
       /\ rd.Marker = <<>> \/ StrLess(rd.Marker, rd'.Marker)]_vars


RECURSIVE NamesOfPages(_, _)
\* the names of the pages that the first k listing requests of q returned
NamesOfPages(q, k) ==
  IF k = 0 THEN <<>>
  ELSE NamesOfPages(q, k - 1)
         \o pageNames(ListObjects(q[k].Bucket, q[k].Key, TRUE, q[k].Marker))

Occurrences(list, x) == Cardinality({i \in DOMAIN list : list[i] = x})

IsSortedList(list) == \A i \in 1..(Len(list) - 1) : ~StrLess(list[i + 1], list[i])

\* C19: a readdir with the client handle one of whose listing requests failed
\* issued no request after it, did not raise, and returned, sorted, the names
\* of the pages before it.
C19_ReaddirDegrades ==
  (/\ ret.op = "readdir" /\ ObjectStoreMode /\ s3Client
   /\ \E i \in DOMAIN reqs : reqs[i].ans = "failure") =>
    LET names == NamesOfPages(reqs, Len(reqs) - 1) IN
    /\ \A i \in DOMAIN reqs : reqs[i].ans = "failure" => i = Len(reqs)
    /\ ret.kind = "ok"
    /\ IsSortedList(ret.val)
    /\ Len(ret.val) = Len(names)
    /\ \A x \in Range(names) : Occurrences(ret.val, x) = Occurrences(names, x)

\* C19 witness: the second listing request failed and readdir returned the
\* name of the first page.
C19_Witness ==
  /\ ret.op = "readdir" /\ ret.kind = "ok" /\ ObjectStoreMode /\ s3Client
  /\ Len(reqs) = 2 /\ reqs[1].ans = "ok" /\ reqs[2].ans = "failure"
  /\ Len(ret.val) = 1

\* C20: the file key and the directory key of every path are relative: neither
\* begins with a separator.
C20_Claimed ==
  (ret.op \in {"normalizeKey", "normalizeDirKey"}) =>
    (ret.val = <<>> \/ Head(ret.val) # "/")

FullyConfigured ==
  /\ ObjectStoreMode
  /\ cfg.endpoint # <<>> /\ cfg.region # <<>>
  /\ cfg.accessKeyId # <<>> /\ cfg.secretAccessKey # <<>>

\* C21: the client handle is unset before startup; a startup leaves it set
\* exactly when the service is in object-store mode with endpoint, region,
\* access key id and secret access key present; no other call changes it; and
\* a shutdown succeeds, with or without a handle, the first time and again.
C21_HandleLifecycle ==
  [][/\ life = "constructed" => ~s3Client
     /\ ret'.op = "onModuleInit" => (s3Client' <=> FullyConfigured)
     /\ s3Client' # s3Client => ret'.op = "onModuleInit"
     /\ s3Client' => FullyConfigured
     /\ ret'.op = "onModuleDestroy" => ret'.kind = "ok" /\ life' = "destroyed"]_vars

\* C21 witness: a service whose startup set the handle has been shut down.
C21_Witness ==
  /\ ret.op = "onModuleDestroy" /\ ret.kind = "ok" /\ life = "destroyed"
  /\ s3Client /\ FullyConfigured

\* C22: the multi-part upload of a write stream in object-store mode is given
\* the part size max(requested, 5 MiB), 5 MiB when none is requested, and the
\* queue size requested, 4 when none is; and a completed upload of 20 MiB
\* with part size 5 MiB has stored exactly 4 parts, whose concatenation in
\* order, the bytes written, is the object.
C22_PartSize ==
  [][/\ \A p \in StreamPaths, o \in WriteOpts, b \in BucketArgs :
          (createWriteStream(p, o, b) /\ ws'.pc = "open") =>
            /\ ws'.partSize >= 5 * 1024 * 1024
            /\ ws'.partSize = (IF o.partSize = <<>> \/ o.partSize[1] < 5 * 1024 * 1024
                                 THEN 5 * 1024 * 1024 ELSE o.partSize[1])
            /\ ws'.queueSize = (IF o.queueSize = <<>> THEN 4 ELSE o.queueSize[1])
     /\ (/\ ws'.pc = "open" /\ ws'.upload = "completed"
         /\ ws'.nwritten * ChunkSize = 20 * 1024 * 1024 /\ ws'.partSize = 5 * 1024 * 1024) =>
           /\ Cardinality(ws'.parts) = 4
           /\ \A q \in ws'.parts : Len(q.data) * ChunkSize = 5 * 1024 * 1024
           /\ bucket'[ws'.Bucket][ws'.Key] = <<1, 2, 3, 4>>]_vars

\* C22 witness: 20 MiB were written to a stream that asked for a part size
\* of 1 byte, and the upload completed in 4 parts of 5 MiB.
C22_Witness ==
  /\ ws.pc = "open" /\ ws.upload = "completed"
  /\ ws.nwritten * ChunkSize = 20 * 1024 * 1024 /\ ws.partSize = 5 * 1024 * 1024 /\ ws.queueSize = 1
  /\ Cardinality(ws.parts) = 4

\* C23: an rmdir(d) with the client handle in object-store mode deletes only
\* objects of the bucket whose key starts with d followed by '/', adds and
\* changes none, and deletes none when its listing request failed.
C23_RmdirFrame ==
  [][(ret'.op = "rmdir" /\ ObjectStoreMode /\ s3Client) =>
       /\ \A bk \in Buckets :
            /\ \A k \in DOMAIN bucket[bk] :
                 \/ k \in DOMAIN bucket'[bk] /\ bucket'[bk][k] = bucket[bk][k]
                 \/ bk = cfg.bucket /\ StartsWith(k, ret'.path \o <<"/">>)
            /\ DOMAIN bucket'[bk] \subseteq DOMAIN bucket[bk]
       /\ (reqs' # <<>> /\ reqs'[1].ans = "failure") => bucket' = bucket]_vars

\* C23 witness: rmdir("a") deleted "a/x" and left the file "a", the file
\* "ab" and "ab/x" of the sibling directory.
C23_Witness ==
  /\ ret.op = "rmdir" /\ ret.path = PA /\ ret.kind = "ok"
  /\ Len(reqs) = 2 /\ reqs[2].cmd = "DeleteObjects" /\ PAx \in Range(reqs[2].Key)
  /\ {PA, PB, PBx} \subseteq DOMAIN bucket[cfg.bucket]
  /\ PAx \notin DOMAIN bucket[cfg.bucket]

====
